---- MODULE Spec2Model ----
(***************************************************************************)
(* Model of src/app.py: the Quartr document pipeline (process_documents),  *)
(* its collaborators (QuartrAPI, TranscriptProcessor, S3Handler,           *)
(* AirtableHandler) and the key formatter format_s3_key.                   *)
(*                                                                         *)
(* Python strings are sequences of one-character strings, dicts are        *)
(* functions over their keys ({} is the empty function <<>>), lists are    *)
(* sequences.  None, '' and {} are all <<>>: the code only tests them for  *)
(* truthiness.                                                             *)
(***************************************************************************)
EXTENDS Integers, Sequences, FiniteSets, TLC

(* ------------------------------ bounds --------------------------------- *)
\* longest identifier list a run is started with
MaxIsins == 2
\* most faults (transport errors, non-200 answers, failed writes, ...) the
\* environment injects into one run
MaxFaults == 2
\* longest transcript text the formatting is called with on its own
MaxText == 5

(* ----------------------- Python built-ins ------------------------------ *)
SetMin(S) == CHOOSE x \in S : \A y \in S : x <= y

\* the characters the model uses, in code-point order
Ascii ==
  << "\n", " ", "-", ".", "/", "0", "1", "2", "3", "4", "5", "6", "7", "8",
     "9", ":", "A", "B", "C", "E", "H", "L", "M", "Q", "T", "U", "V", "Z", "_",
     "a", "b", "c", "d", "e", "f", "g", "h", "i", "l", "m", "n", "o", "p",
     "q", "r", "s", "t", "u", "v", "w", "x", "z" >>

Upper == << "A", "B", "C", "E", "H", "L", "M", "Q", "T", "U", "V", "Z" >>
LowerOf == << "a", "b", "c", "e", "h", "l", "m", "q", "t", "u", "v", "z" >>

\* ord(c), up to an order-preserving renumbering
Ord(c) == CHOOSE i \in 1..Len(Ascii) : Ascii[i] = c

\* bool(v) of a str, dict or list
Truthy(v) == v # <<>>

\* d.get(k, default)
Get(d, k, default) == IF k \in DOMAIN d THEN d[k] ELSE default

\* s.lower()
LowerChar(c) ==
  IF \E i \in 1..Len(Upper) : Upper[i] = c
    THEN LowerOf[CHOOSE i \in 1..Len(Upper) : Upper[i] = c]
    ELSE c
Lower(s) == [i \in 1..Len(s) |-> LowerChar(s[i])]

\* s.replace(a, b) for one-character a and b
Replace(s, a, b) == [i \in 1..Len(s) |-> IF s[i] = a THEN b ELSE s[i]]

\* s.split(sep): leftmost, non-overlapping occurrences of sep
RECURSIVE Split(_, _)
Split(s, sep) ==
  LET n == Len(s)
      m == Len(sep)
      hits == {i \in 1..(n - m + 1) : SubSeq(s, i, i + m - 1) = sep}
  IN  IF hits = {} THEN << s >>
      ELSE LET i == SetMin(hits)
           IN  << SubSeq(s, 1, i - 1) >> \o Split(SubSeq(s, i + m, n), sep)

\* sep.join(parts)
RECURSIVE Join(_, _)
Join(parts, sep) ==
  IF Len(parts) = 0 THEN <<>>
  ELSE IF Len(parts) = 1 THEN parts[1]
  ELSE parts[1] \o sep \o Join(Tail(parts), sep)

\* parts[-1]
Last(parts) == parts[Len(parts)]

\* a <= b on str: lexicographic by code point, a proper prefix is smaller
StrLeq(a, b) ==
  LET n == IF Len(a) < Len(b) THEN Len(a) ELSE Len(b)
      diff == {i \in 1..n : a[i] # b[i]}
  IN  IF diff = {} THEN Len(a) <= Len(b)
      ELSE LET i == SetMin(diff) IN Ord(a[i]) < Ord(b[i])

\* the text of a document-type name, as it is interpolated into f-strings
DocChars(doc_type) ==
  CASE doc_type = "slides" -> << "s", "l", "i", "d", "e", "s" >>
    [] doc_type = "report" -> << "r", "e", "p", "o", "r", "t" >>
    [] doc_type = "transcript" ->
         << "t", "r", "a", "n", "s", "c", "r", "i", "p", "t" >>
    [] doc_type = "audio" -> << "a", "u", "d", "i", "o" >>

\* f'{doc_type}Url'
UrlField(doc_type) ==
  CASE doc_type = "slides" -> "slidesUrl"
    [] doc_type = "report" -> "reportUrl"
    [] doc_type = "transcript" -> "transcriptUrl"
    [] doc_type = "audio" -> "audioUrl"

(* --------------------------- format_s3_key ----------------------------- *)
format_s3_key(company_name, date, doc_type, filename) ==
  LET clean_company == Lower(Replace(Replace(company_name, " ", "_"), "/", "_"))
      clean_date == Split(date, << "T" >>)[1]
      clean_filename == Lower(Replace(filename, " ", "_"))
  IN  Join(<< clean_company, clean_date, DocChars(doc_type), clean_filename >>,
           << "/" >>)

(* ------------------------- main: the arguments ------------------------- *)
Digit(n) == << "0", "1", "2", "3", "4", "5", "6", "7", "8", "9" >>[n + 1]
TwoDigits(n) == << Digit(n \div 10), Digit(n % 10) >>
FourDigits(n) ==
  << Digit(n \div 1000), Digit((n \div 100) % 10), Digit((n \div 10) % 10),
     Digit(n % 10) >>

\* d.strftime("%Y-%m-%d") of the date d = <<year, month, day>>
Strftime(d) ==
  FourDigits(d[1]) \o << "-" >> \o TwoDigits(d[2]) \o << "-" >> \o TwoDigits(d[3])

(* ------------------- the provider's data (the world) ------------------- *)
Str_unknown == << "u", "n", "k", "n", "o", "w", "n" >>
Str_Unknown_Event ==
  << "U", "n", "k", "n", "o", "w", "n", " ", "E", "v", "e", "n", "t" >>
Str_transcript_pdf ==
  << "_", "t", "r", "a", "n", "s", "c", "r", "i", "p", "t", ".", "p", "d", "f" >>
Clock == << "T", "1", "0", ":", "0", "0", "Z" >>

\* the raw transcript payloads, by URL: { "transcript": { "text": ... } }
RawT1 == << "h", "/", "r", "1" >>
RawT3 == << "h", "/", "r", "3" >>
TranscriptStore ==
  (RawT1 :> [transcript |-> [text |-> << "A", ".", " ", "B", ".", " ", "C" >>]])
  @@ (RawT3 :> [transcript |-> [text |-> <<>>]])

EventA1 ==
  [eventDate |-> Strftime(<< 2024, 3, 1 >>) \o Clock,
   eventTitle |-> << "Q", "1", " ", "C", "a", "l", "l" >>,
   slidesUrl |-> << "h", "/", "a", "/", "Q", "1", ".", "p", "d", "f" >>,
   transcriptUrl |-> << "h", "/", "a", "/", "t", "1" >>,
   transcripts |-> [transcriptUrl |-> RawT1],
   audioUrl |-> << "h", "/", "a", "/", "q", "1", ".", "m", "p", "e", "g" >>]

\* a date without a time part, a title holding a '/', a transcript-location
\* object without a raw transcript URL
EventA2 ==
  [eventDate |-> Strftime(<< 2024, 3, 10 >>),
   eventTitle |-> << "H", "1", "/", "H", "2" >>,
   reportUrl |-> << "h", "/", "a", "/", "r", "2", ".", "p", "d", "f" >>,
   transcriptUrl |-> << "h", "/", "a", "/", "t", "2" >>,
   transcripts |-> [transcriptId |-> << "7" >>],
   audioUrl |-> << "h", "/", "a", "/", "h", ".", "m", "p", "3" >>]

\* the day before the earliest start date
EventB1 ==
  [eventDate |-> Strftime(<< 2024, 2, 29 >>) \o Clock,
   eventTitle |-> << "Q", "4" >>,
   slidesUrl |-> << "h", "/", "b", "/", "s", "1", ".", "p", "d", "f" >>,
   reportUrl |-> << "h", "/", "b", "/", "r", "1", ".", "p", "d", "f" >>]

\* a transcript whose text is empty, a transcript-location object
EventB2 ==
  [eventDate |-> Strftime(<< 2024, 3, 5 >>) \o Clock,
   eventTitle |-> << "Q", "1", " ", "C", "a", "l", "l" >>,
   slidesUrl |-> << "h", "/", "b", "/", "Q", "1", ".", "p", "d", "f" >>,
   transcriptUrl |-> << "h", "/", "b", "/", "t", "3" >>,
   transcripts |-> [transcriptUrl |-> RawT3]]

\* the day after the latest end date
EventB3 ==
  [eventDate |-> Strftime(<< 2024, 3, 11 >>) \o Clock,
   eventTitle |-> << "Q", "2" >>,
   slidesUrl |-> << "h", "/", "b", "/", "s", "3", ".", "p", "d", "f" >>,
   audioUrl |-> << "h", "/", "b", "/", "a", "3", ".", "m", "p", "3" >>]

\* a transcript link and no transcript-location object at all
EventB4 ==
  [eventDate |-> Strftime(<< 2024, 3, 9 >>) \o Clock,
   eventTitle |-> << "Q", "3" >>,
   transcriptUrl |-> << "h", "/", "b", "/", "t", "4" >>]

\* what GET /companies/isin/{isin} answers with status 200
Directory ==
  [US1 |-> [displayName |-> << "L", "V", " ", "M", "H" >>,
            isins |-> << "US1" >>,
            events |-> << EventA1, EventA2 >>],
   FR2 |-> [displayName |-> << "A", "/", "B" >>,
            isins |-> << "FR2", "FR9" >>,
            events |-> << EventB1, EventB2, EventB3, EventB4 >>],
   XX9 |-> [displayName |-> << "Z" >>, isins |-> << "XX9" >>],
   DE5 |-> [displayName |-> << "E" >>, isins |-> << "DE5" >>, events |-> <<>>]]

\* the identifiers a run may be given; ZZ0 is unknown to the provider (404)
Isins == {"US1", "FR2", "XX9", "DE5", "ZZ0"}

RECURSIVE SeqsUpTo(_, _)
SeqsUpTo(S, n) ==
  IF n = 0 THEN {<<>>}
  ELSE LET shorter == SeqsUpTo(S, n - 1)
       IN  shorter \cup {Append(q, x) : q \in shorter, x \in S}

IsinLists == SeqsUpTo(Isins, MaxIsins) \ {<<>>}

DocTypes == {"slides", "report", "transcript", "audio"}
\* the selections the runs are started with: st.multiselect gives a list
\* without repetition, in the order the user picked
DocSelections ==
  {<< "slides", "report" >>, << "report", "slides" >>, << "audio", "slides" >>,
   << "transcript" >>, << "transcript", "audio" >>,
   << "slides", "transcript", "report" >>}

\* the << start, end >> dates the runs are started with: main has checked
\* start_date <= end_date
Windows ==
  {<< << 2024, 3, 1 >>, << 2024, 3, 10 >> >>,
   << << 2024, 3, 2 >>, << 2024, 3, 9 >> >>}

Bucket == << "b", "k" >>

(* ------------------------------ state ---------------------------------- *)
VARIABLES
  isin_list, start_date, end_date, selected_docs, bucket_name, \* the arguments
  pc,                  \* position in process_documents
  outcome,             \* how the run ended: "running" until it has
  session_open,        \* the aiohttp.ClientSession of the run
  idx,                 \* position of the Phase 1 / Phase 2 loop
  valid_isins, companies_data,
  total_files, processed_files, successful_uploads, failed_uploads,
  cand,                \* how many loop bodies the processing pass has entered
  cur,                 \* its loop positions: << company, event, doc_type >>
  success, airtable_success, s3_key,
  faults,              \* faults injected so far
  cur_artifact, cur_upload, cur_write,   \* what the candidate being handled got
  phase1_nonempty,     \* non-empty provider responses of Phase 1
  call_args, call_result, \* a call of a pure function and what it returned
  n_fetch, n_upload, n_write, \* document fetches, uploads, metadata writes
  s3_puts,             \* the keys put_object (line 211) was called with, in call order
  s3_objects,          \* the keys put_object has stored, in the order of the puts
  airtable_rows,       \* the records table.create has created, in that order
  record,              \* the record of the last create_record call
  progress             \* the last progress notification

vars ==
  << isin_list, start_date, end_date, selected_docs, bucket_name, pc, outcome,
     session_open, idx, valid_isins, companies_data, total_files,
     processed_files, successful_uploads, failed_uploads, cand, cur,
     success, airtable_success, s3_key, faults, cur_artifact, cur_upload,
     cur_write, phase1_nonempty, call_args, call_result, n_fetch, n_upload,
     n_write, s3_puts, s3_objects, airtable_rows, record, progress >>

args ==
  << isin_list, start_date, end_date, selected_docs, bucket_name, call_args,
     call_result >>
counters == << processed_files, successful_uploads, failed_uploads, progress >>
effects ==
  << n_fetch, n_upload, n_write, s3_puts, s3_objects, airtable_rows, record >>

\* a local variable that has not been assigned yet
Unbound == << "?" >>

(* --------------------- QuartrAPI.get_company_events -------------------- *)
\* the status of GET /companies/isin/{isin}; a transport error is status 0
ProviderStatus(isin, fault) ==
  IF fault THEN 0
  ELSE IF isin \in DOMAIN Directory THEN 200 ELSE 404

\* a client that takes any answer it may get as a 200, a transport error too
get_company_events_ErrorIgnored(isin, fault) ==
  IF isin \in DOMAIN Directory THEN Directory[isin] ELSE <<>>

get_company_events(isin, fault) ==
  IF ProviderStatus(isin, fault) = 200 THEN Directory[isin] ELSE <<>>

\* the faults the environment may still inject
FaultChoices == IF faults < MaxFaults THEN {FALSE, TRUE} ELSE {FALSE}
Charge(fault) == faults' = IF fault THEN faults + 1 ELSE faults

(* ---------------- process_documents: the two passes -------------------- *)
RECURSIVE SumSeq(_)
SumSeq(q) == IF q = <<>> THEN 0 ELSE Head(q) + SumSeq(Tail(q))

RECURSIVE Flatten(_)
Flatten(qq) == IF qq = <<>> THEN <<>> ELSE Head(qq) \o Flatten(Tail(qq))

\* event.get('eventDate', '').split('T')[0]
EventDate(event) == Split(Get(event, "eventDate", <<>>), << "T" >>)[1]

\* a window that leaves out its two end dates
InWindow_Exclusive(event_date, sdate, edate) ==
  /\ StrLeq(sdate, event_date) /\ sdate # event_date
  /\ StrLeq(event_date, edate) /\ event_date # edate

\* start_date <= event_date <= end_date
InWindow(event_date, sdate, edate) ==
  StrLeq(sdate, event_date) /\ StrLeq(event_date, edate)

\* the counting pass: the value of total_files after its loops
CountFiles(cdata, sdate, edate, docs) ==
  SumSeq([ci \in 1..Len(cdata) |->
    LET events == Get(cdata[ci], "events", <<>>)
    IN  SumSeq([ei \in 1..Len(events) |->
          IF InWindow(EventDate(events[ei]), sdate, edate)
            THEN Cardinality({di \in 1..Len(docs) :
                   Truthy(Get(events[ei], UrlField(docs[di]), <<>>))})
            ELSE 0])])

\* the loop positions after the last body of the processing pass
Exhausted == << 0, 0, 0 >>

\* the processing pass, lines 281-297: the first << company, event, doc_type >>
\* position at or after << ci, ei, di >>, in the order of the three nested
\* loops, whose body is entered
RECURSIVE NextCandidate(_, _, _, _, _, _, _)
NextCandidate(cdata, sdate, edate, docs, ci, ei, di) ==
  IF ci > Len(cdata) THEN Exhausted
  ELSE IF ~Truthy(cdata[ci])
    THEN NextCandidate(cdata, sdate, edate, docs, ci + 1, 1, 1)
  ELSE LET events == Get(cdata[ci], "events", <<>>)
       IN  IF ei > Len(events)
             THEN NextCandidate(cdata, sdate, edate, docs, ci + 1, 1, 1)
           ELSE IF ~InWindow(EventDate(events[ei]), sdate, edate)
             THEN NextCandidate(cdata, sdate, edate, docs, ci, ei + 1, 1)
           ELSE IF di > Len(docs)
             THEN NextCandidate(cdata, sdate, edate, docs, ci, ei + 1, 1)
           ELSE IF Truthy(Get(events[ei], UrlField(docs[di]), <<>>))
             THEN << ci, ei, di >>
           ELSE NextCandidate(cdata, sdate, edate, docs, ci, ei, di + 1)

\* the options of the multiselect, in the order it lists them
DocOptions == << "slides", "report", "transcript", "audio" >>

\* the loop variables of the candidate being handled
company == companies_data[cur[1]]
event == Get(company, "events", <<>>)[cur[2]]
\* a loop over the selected categories in the order of the options
doc_type_InOptionOrder ==
  SelectSeq(DocOptions,
            LAMBDA d : \E i \in 1..Len(selected_docs) : selected_docs[i] = d)[cur[3]]
doc_type == selected_docs[cur[3]]
company_name == Get(company, "displayName", Str_unknown)
current_isin == Get(company, "isins", << "unknown" >>)[1]
event_date == EventDate(event)
event_title == Get(event, "eventTitle", Str_Unknown_Event)
file_url == Get(event, UrlField(doc_type), <<>>)

(* ------------------------------- Init ---------------------------------- *)
\* lines 231-247: the locals of process_documents before its first query
Locals ==
  /\ outcome = "running"
  /\ session_open = TRUE
  /\ idx = 1
  /\ valid_isins = <<>>
  /\ companies_data = <<>>
  /\ total_files = 0
  /\ processed_files = 0
  /\ successful_uploads = 0
  /\ failed_uploads = 0
  /\ cand = 1
  /\ cur = Exhausted
  /\ success = FALSE
  /\ airtable_success = FALSE
  /\ s3_key = Unbound
  /\ faults = 0
  /\ cur_artifact = FALSE
  /\ cur_upload = "none"
  /\ cur_write = "none"
  /\ phase1_nonempty = 0
  /\ n_fetch = 0
  /\ n_upload = 0
  /\ n_write = 0
  /\ s3_puts = <<>>
  /\ s3_objects = <<>>
  /\ airtable_rows = <<>>
  /\ record = <<>>
  /\ progress = [kind |-> "none", processed |-> 0, total |-> 0,
                  successful |-> 0, failed |-> 0]

\* main has checked the form and starts process_documents
Init ==
  /\ isin_list \in IsinLists
  /\ selected_docs \in DocSelections
  /\ \E w \in Windows :
       /\ start_date = Strftime(w[1])
       /\ end_date = Strftime(w[2])
  /\ bucket_name = Bucket
  /\ pc = "validate"
  /\ call_args = <<>>
  /\ call_result = Unbound
  /\ Locals

(* ------------------- Phase 1: validate the identifiers ----------------- *)
\* lines 248-253, one iteration
ValidateIsin ==
  /\ pc = "validate"
  /\ idx <= Len(isin_list)
  /\ \E fault \in FaultChoices :
       LET isin == isin_list[idx]
           company_data == get_company_events(isin, fault)
       IN  /\ Charge(fault)
           /\ valid_isins' =
                IF Truthy(company_data) /\ "events" \in DOMAIN company_data
                  THEN Append(valid_isins, isin)
                  ELSE valid_isins
           /\ phase1_nonempty' =
                IF Truthy(company_data) THEN phase1_nonempty + 1
                ELSE phase1_nonempty
  /\ idx' = idx + 1
  /\ UNCHANGED << args, pc, outcome, session_open, companies_data, total_files,
                  counters, cand, cur, success, airtable_success, s3_key,
                  cur_artifact, cur_upload, cur_write, effects >>

\* Phase 1 without its early return
CheckValid_NoReturn ==
  /\ pc = "validate"
  /\ idx > Len(isin_list)
  /\ pc' = "refetch"
  /\ idx' = 1
  /\ UNCHANGED << args, outcome, session_open, valid_isins, companies_data,
                  total_files, counters, cand, cur, success, airtable_success,
                  s3_key, faults, cur_artifact, cur_upload, cur_write,
                  phase1_nonempty, effects >>

\* lines 255-257
CheckValid ==
  /\ pc = "validate"
  /\ idx > Len(isin_list)
  /\ IF ~Truthy(valid_isins)
       THEN /\ pc' = "done"
            /\ outcome' = "no_valid_isins"
            /\ session_open' = FALSE
       ELSE /\ pc' = "refetch"
            /\ UNCHANGED << outcome, session_open >>
  /\ idx' = 1
  /\ UNCHANGED << args, valid_isins, companies_data, total_files, counters,
                  cand, cur, success, airtable_success, s3_key, faults,
                  cur_artifact, cur_upload, cur_write, phase1_nonempty, effects >>

(* ---------------- Phase 2: fetch the company records ------------------- *)
\* lines 261-264, one iteration
RefetchIsin ==
  /\ pc = "refetch"
  /\ idx <= Len(valid_isins)
  /\ \E fault \in FaultChoices :
       LET data == get_company_events(valid_isins[idx], fault)
       IN  /\ Charge(fault)
           /\ companies_data' =
                IF Truthy(data) THEN Append(companies_data, data)
                ELSE companies_data
  /\ idx' = idx + 1
  /\ UNCHANGED << args, pc, outcome, session_open, valid_isins, total_files,
                  counters, cand, cur, success, airtable_success, s3_key,
                  cur_artifact, cur_upload, cur_write, phase1_nonempty, effects >>

(* --------------------- Phase 3: the counting pass ---------------------- *)
\* the counting pass without its early return
CountPass_NoEarlyReturn ==
  /\ pc = "refetch"
  /\ idx > Len(valid_isins)
  /\ total_files' = CountFiles(companies_data, start_date, end_date, selected_docs)
  /\ cur' = NextCandidate(companies_data, start_date, end_date, selected_docs,
                          1, 1, 1)
  /\ pc' = IF cur' = Exhausted THEN "finish" ELSE "dispatch"
  /\ UNCHANGED << args, outcome, session_open, idx, valid_isins, companies_data,
                  counters, cand, success, airtable_success, s3_key, faults,
                  cur_artifact, cur_upload, cur_write, phase1_nonempty,
                  effects >>

\* lines 267-278
CountPass ==
  /\ pc = "refetch"
  /\ idx > Len(valid_isins)
  /\ total_files' = CountFiles(companies_data, start_date, end_date, selected_docs)
  /\ cur' = NextCandidate(companies_data, start_date, end_date, selected_docs,
                          1, 1, 1)
  /\ IF total_files' = 0
       THEN /\ pc' = "done"
            /\ outcome' = "no_matching_documents"
            /\ session_open' = FALSE
       ELSE /\ pc' = IF cur' = Exhausted THEN "finish" ELSE "dispatch"
            /\ UNCHANGED << outcome, session_open >>
  /\ UNCHANGED << args, idx, valid_isins, companies_data, counters, cand,
                  success, airtable_success, s3_key, faults, cur_artifact,
                  cur_upload, cur_write, phase1_nonempty, effects >>

(* ------------- TranscriptProcessor / S3Handler / Airtable -------------- *)
\* what a GET of a document or of a raw transcript can come to
FetchResults ==
  {"ok"} \cup (IF faults < MaxFaults THEN {"exception", "status"} ELSE {})
TranscriptFetchResults ==
  FetchResults
    \cup (IF faults < MaxFaults THEN {"content_type", "json_error"} ELSE {})

\* a formatting that joins the sentences by the newline alone
FormatTranscript_PeriodDropped(text) ==
  Join(Split(text, << ".", " " >>), << "\n" >>)

\* text.split('. ') joined by '.\n'
FormatTranscript(text) == Join(Split(text, << ".", " " >>), << ".", "\n" >>)

\* TranscriptProcessor.process_transcript: every failure gives ''
process_transcript(transcripts, net) ==
  LET raw_transcript_url == Get(transcripts, "transcriptUrl", <<>>)
  IN  IF ~Truthy(raw_transcript_url) THEN <<>>
      ELSE IF net = "ok" /\ raw_transcript_url \in DOMAIN TranscriptStore
        THEN LET transcript_data == TranscriptStore[raw_transcript_url]
                 text == Get(Get(transcript_data, "transcript", <<>>), "text", <<>>)
             IN  FormatTranscript(text)
        ELSE <<>>

\* S3Handler.upload_file: an exception of put_object is caught and gives False
upload_file(fault) == ~fault

\* AirtableHandler.create_record returns False whatever table.create did: an
\* exception of table.create is caught at line 97, and after a create that
\* succeeded line 94 calls st.debug, which streamlit does not have; its
\* AttributeError is caught at line 97 as well
create_record(fault) == FALSE

(* ---------------- Phase 4: the processing pass, per candidate ---------- *)
\* an exception that ends the run and leaves its session open
Raise_SessionLeftOpen ==
  /\ pc' = "done"
  /\ outcome' = "exception"
  /\ UNCHANGED session_open

\* lines 410-412: the exception leaves the session block and is re-raised
Raise ==
  /\ pc' = "done"
  /\ outcome' = "exception"
  /\ session_open' = FALSE

\* line 298 and the start of a candidate
BeginCandidate ==
  /\ success' = FALSE
  /\ cur_upload' = "none"
  /\ cur_write' = "none"

\* the fetch or the rendering raised: nothing to upload, the run is aborted
RaiseInDispatch ==
  /\ Raise
  /\ cur_artifact' = FALSE
  /\ UNCHANGED s3_key

\* no bytes to upload: success stays False, line 366 is next
NoArtifact ==
  /\ pc' = "account"
  /\ cur_artifact' = FALSE
  /\ UNCHANGED << s3_key, outcome, session_open >>

\* the bytes are there and the key is formatted: the upload is next
ToUpload(key) ==
  /\ s3_key' = key
  /\ pc' = "upload"
  /\ cur_artifact' = TRUE
  /\ UNCHANGED << outcome, session_open >>

\* f"{event_title.lower().replace(' ', '_')}..."
TitleStem(title) == Replace(Lower(title), " ", "_")

\* lines 300-323: the transcript branch up to the upload
DispatchTranscript ==
  /\ pc = "dispatch"
  /\ doc_type = "transcript"
  /\ BeginCandidate
  /\ LET transcripts == Get(event, "transcripts", <<>>)
         fetched == Truthy(transcripts)
                      /\ Truthy(Get(transcripts, "transcriptUrl", <<>>))
     IN  \E net \in (IF fetched THEN TranscriptFetchResults ELSE {"ok"}),
            pdf_fault \in FaultChoices :
           LET transcript_text ==
                 IF Truthy(transcripts) THEN process_transcript(transcripts, net)
                 ELSE <<>>
           IN  /\ n_fetch' = IF fetched THEN n_fetch + 1 ELSE n_fetch
               /\ IF Truthy(transcript_text)
                    THEN /\ Charge(pdf_fault)
                         /\ IF pdf_fault  \* create_pdf raises
                              THEN RaiseInDispatch
                              ELSE ToUpload(format_s3_key(company_name,
                                     event_date, doc_type,
                                     TitleStem(event_title) \o Str_transcript_pdf))
                    ELSE /\ ~pdf_fault
                         /\ Charge(net # "ok")
                         /\ NoArtifact
  /\ UNCHANGED << args, idx, valid_isins, companies_data, total_files, counters,
                  cand, cur, airtable_success, phase1_nonempty, n_upload,
                  n_write, s3_puts, s3_objects, airtable_rows, record >>

\* lines 329-341: the audio branch up to the upload
DispatchAudio ==
  /\ pc = "dispatch"
  /\ doc_type = "audio"
  /\ BeginCandidate
  /\ n_fetch' = n_fetch + 1
  /\ \E net \in FetchResults :
       /\ Charge(net # "ok")
       /\ CASE net = "exception" -> RaiseInDispatch
            [] net = "status" -> NoArtifact
            [] net = "ok" ->
                 LET file_extension == Lower(Last(Split(file_url, << "." >>)))
                 IN  ToUpload(format_s3_key(company_name, event_date, doc_type,
                       TitleStem(event_title) \o << "." >> \o file_extension))
  /\ UNCHANGED << args, idx, valid_isins, companies_data, total_files, counters,
                  cand, cur, airtable_success, phase1_nonempty, n_upload,
                  n_write, s3_puts, s3_objects, airtable_rows, record >>

\* lines 348-358: slides, reports and any other type, up to the upload
DispatchOther ==
  /\ pc = "dispatch"
  /\ doc_type \notin {"transcript", "audio"}
  /\ BeginCandidate
  /\ n_fetch' = n_fetch + 1
  /\ \E net \in FetchResults :
       /\ Charge(net # "ok")
       /\ CASE net = "exception" -> RaiseInDispatch
            [] net = "status" -> NoArtifact
            [] net = "ok" ->
                 ToUpload(format_s3_key(company_name, event_date, doc_type,
                   Last(Split(file_url, << "/" >>))))
  /\ UNCHANGED << args, idx, valid_isins, companies_data, total_files, counters,
                  cand, cur, airtable_success, phase1_nonempty, n_upload,
                  n_write, s3_puts, s3_objects, airtable_rows, record >>

\* lines 324-328, 342-347, 359-364 and the test of line 366. upload_file fails
\* either on entering the client (line 210), put_object not being called, or
\* in put_object itself (lines 211-216)
Upload ==
  /\ pc = "upload"
  /\ \E fault \in FaultChoices :
       /\ Charge(fault)
       /\ success' = upload_file(fault)
       /\ \E put_called \in IF fault THEN BOOLEAN ELSE {TRUE} :
            s3_puts' = IF put_called THEN Append(s3_puts, s3_key) ELSE s3_puts
  /\ cur_upload' = IF success' THEN "ok" ELSE "failed"
  /\ n_upload' = n_upload + 1
  /\ s3_objects' = IF success' THEN Append(s3_objects, s3_key) ELSE s3_objects
  /\ pc' = IF success' THEN "construct" ELSE "account"
  /\ UNCHANGED << args, outcome, session_open, idx, valid_isins, companies_data,
                  total_files, counters, cand, cur, airtable_success, s3_key,
                  cur_artifact, cur_write, phase1_nonempty, n_fetch, n_write,
                  airtable_rows, record >>

\* line 370: AirtableHandler() raises every time. When its connection test
\* (line 59) fails, the exception is caught at 62 and re-raised at 72; when
\* the test succeeds, line 60 calls st.debug, which streamlit does not have,
\* and the AttributeError takes the same way
Construct ==
  /\ pc = "construct"
  /\ \E fault \in FaultChoices : Charge(fault)
  /\ Raise
  /\ UNCHANGED << args, idx, valid_isins, companies_data, total_files, counters,
                  cand, cur, success, airtable_success, s3_key, cur_artifact,
                  cur_upload, cur_write, phase1_nonempty, effects >>

\* line 368: f"s3://{bucket_name}/{s3_key}"
aws_url == << "s", "3", ":", "/", "/" >> \o bucket_name \o << "/" >> \o s3_key

\* datetime.strptime(s, '%Y-%m-%d') of an ISO date, as << year, month, day >>
DigitOf(c) == CHOOSE n \in 0..9 : Digit(n) = c
Strptime(str) ==
  << 1000 * DigitOf(str[1]) + 100 * DigitOf(str[2]) + 10 * DigitOf(str[3])
       + DigitOf(str[4]),
     10 * DigitOf(str[6]) + DigitOf(str[7]),
     10 * DigitOf(str[9]) + DigitOf(str[10]) >>

\* lines 83-92: the record create_record builds from its arguments; the
\* provider's event dates are ISO dates, with or without a time
NewRecord(name, isin, url, date, title, document_type) ==
  LET formatted_date == Strftime(Strptime(Split(date, << "T" >>)[1]))
  IN  [company |-> name, ISIN |-> isin, aws_url |-> url,
       eventDate |-> formatted_date, eventType |-> title,
       documentType |-> document_type]

\* lines 371-378, which no run reaches, line 370 raising every time: the row
\* is created unless table.create fails, and False is returned either way
CreateRecord ==
  /\ pc = "create"
  /\ record' = NewRecord(company_name, current_isin, aws_url,
                         Get(event, "eventDate", <<>>),
                         Get(event, "eventTitle", <<>>), doc_type)
  /\ \E fault \in FaultChoices :
       /\ Charge(fault)
       /\ airtable_success' = create_record(fault)
       /\ airtable_rows' = IF fault THEN airtable_rows
                           ELSE Append(airtable_rows, record')
  /\ cur_write' = IF airtable_success' THEN "ok" ELSE "failed"
  /\ n_write' = n_write + 1
  /\ pc' = "account"
  /\ UNCHANGED << args, outcome, session_open, idx, valid_isins, companies_data,
                  total_files, counters, cand, cur, success, s3_key,
                  cur_artifact, cur_upload, phase1_nonempty, n_fetch, n_upload,
                  s3_puts, s3_objects >>

\* a failed candidate that is counted nowhere
Counted_FailureDropped(ok, written) ==
  IF ok /\ written THEN "successful" ELSE "skipped"

\* a candidate without upload that is skipped instead of counted as failed
Counted_NoUploadSkipped(ok, written) ==
  IF ok THEN (IF written THEN "successful" ELSE "failed") ELSE "skipped"

\* lines 366, 380-386: which counter the candidate adds to
Counted(ok, written) == IF ok THEN (IF written THEN "successful" ELSE "failed")
                        ELSE "failed"

\* lines 380-397 and the step of the loops to the next candidate
Account ==
  /\ pc = "account"
  /\ LET c == Counted(success, airtable_success)
     IN  /\ successful_uploads' =
               IF c = "successful" THEN successful_uploads + 1 ELSE successful_uploads
         /\ failed_uploads' =
               IF c = "failed" THEN failed_uploads + 1 ELSE failed_uploads
  /\ processed_files' = processed_files + 1
  /\ progress' = [kind |-> "item", processed |-> processed_files',
                   total |-> total_files, successful |-> successful_uploads',
                   failed |-> failed_uploads']
  /\ cand' = cand + 1
  /\ cur' = NextCandidate(companies_data, start_date, end_date, selected_docs,
                          cur[1], cur[2], cur[3] + 1)
  /\ pc' = IF cur' = Exhausted THEN "finish" ELSE "dispatch"
  /\ UNCHANGED << args, outcome, session_open, idx, valid_isins, companies_data,
                  total_files, success, airtable_success, s3_key, faults,
                  cur_artifact, cur_upload, cur_write, phase1_nonempty, effects >>

\* lines 399-408
Finish ==
  /\ pc = "finish"
  /\ progress' = [kind |-> "final", processed |-> processed_files,
                   total |-> total_files, successful |-> successful_uploads,
                   failed |-> failed_uploads]
  /\ outcome' = "complete"
  /\ session_open' = FALSE
  /\ pc' = "done"
  /\ UNCHANGED << args, idx, valid_isins, companies_data, total_files,
                  processed_files, successful_uploads, failed_uploads, cand,
                  cur, success, airtable_success, s3_key, faults, cur_artifact,
                  cur_upload, cur_write, phase1_nonempty, effects >>

Next ==
  \/ ValidateIsin
  \/ CheckValid
  \/ RefetchIsin
  \/ CountPass
  \/ DispatchTranscript
  \/ DispatchAudio
  \/ DispatchOther
  \/ Upload
  \/ Construct
  \/ Account
  \/ Finish

Spec == Init /\ [][Next]_vars

(* --------------- format_s3_key, called on its own --------------------- *)
KeyCompanies ==
  {<< "L", "V", " ", "M", "H" >>, << "A", "/", "B" >>, << "x" >>, <<>>}
KeyDates ==
  {Strftime(<< 2024, 3, 1 >>) \o Clock, Strftime(<< 2024, 3, 10 >>),
   << "T", "1", "0" >>, <<>>}
KeyFilenames ==
  {<< "Q", "1", " ", "s", ".", "p", "d", "f" >>,
   << "a", "/", "B", ".", "p", "d", "f" >>,
   << "h", "1", "/", "h", "2", ".", "m", "p", "3" >>,
   << "s", ".", "p", "d", "f" >>}

InitKey ==
  /\ call_args \in KeyCompanies \X KeyDates \X DocTypes \X KeyFilenames
  /\ call_result = Unbound
  /\ isin_list = <<>>
  /\ selected_docs = <<>>
  /\ start_date = <<>>
  /\ end_date = <<>>
  /\ bucket_name = Bucket
  /\ pc = "call"
  /\ Locals

FormatKeyCall ==
  /\ pc = "call"
  /\ call_result = Unbound
  /\ call_result' =
       format_s3_key(call_args[1], call_args[2], call_args[3], call_args[4])
  /\ UNCHANGED << isin_list, start_date, end_date, selected_docs, bucket_name,
                  call_args, pc, outcome, session_open, idx, valid_isins,
                  companies_data, total_files, counters, cand, cur, success,
                  airtable_success, s3_key, faults, cur_artifact, cur_upload,
                  cur_write, phase1_nonempty, effects >>

NextKey == FormatKeyCall

SpecKey == InitKey /\ [][NextKey]_vars

(* ------------- the transcript formatting, called on its own ------------ *)
\* the transcript texts: every text of up to MaxText of these characters, and
\* a text of three sentences
TextChars == {"A", "B", ".", " ", "\n"}
Texts ==
  SeqsUpTo(TextChars, MaxText) \cup {<< "A", ".", " ", "B", ".", " ", "C" >>}

InitText ==
  /\ call_args \in {<< text >> : text \in Texts}
  /\ call_result = Unbound
  /\ isin_list = <<>>
  /\ selected_docs = <<>>
  /\ start_date = <<>>
  /\ end_date = <<>>
  /\ bucket_name = Bucket
  /\ pc = "call_format"
  /\ Locals

\* lines 126-129 on the text of a fetched transcript
FormatTranscriptCall ==
  /\ pc = "call_format"
  /\ call_result = Unbound
  /\ call_result' = FormatTranscript(call_args[1])
  /\ UNCHANGED << isin_list, start_date, end_date, selected_docs, bucket_name,
                  call_args, pc, outcome, session_open, idx, valid_isins,
                  companies_data, total_files, counters, cand, cur, success,
                  airtable_success, s3_key, faults, cur_artifact, cur_upload,
                  cur_write, phase1_nonempty, effects >>

NextText == FormatTranscriptCall

SpecText == InitText /\ [][NextText]_vars

(* ---------------------- main: the submitted form ----------------------- *)
SetMax(S) == CHOOSE x \in S : \A y \in S : y <= x

\* s.strip(): the whitespace of the model's texts is the space and the newline
Strip(s) ==
  LET keep == {i \in 1..Len(s) : s[i] \notin {" ", "\n"}}
  IN  IF keep = {} THEN <<>> ELSE SubSeq(s, SetMin(keep), SetMax(keep))

\* the text of each identifier, as it is typed into the form
IsinText ==
  [US1 |-> << "U", "S", "1" >>, FR2 |-> << "F", "R", "2" >>,
   XX9 |-> << "X", "X", "9" >>, DE5 |-> << "D", "E", "5" >>,
   ZZ0 |-> << "Z", "Z", "0" >>]
IsinOf(text) == CHOOSE isin \in Isins : IsinText[isin] = text

\* [isin.strip() for isin in isin_input.split("\n") if isin.strip()]
ParseIsins(isin_input) ==
  LET lines == Split(isin_input, << "\n" >>)
      kept == SelectSeq(lines, LAMBDA line : Truthy(Strip(line)))
  IN  [i \in 1..Len(kept) |-> IsinOf(Strip(kept[i]))]

\* a comparison of the two dates that looks at the year only
DateGt_YearOnly(d1, d2) == d1[1] > d2[1]

\* d1 > d2 on datetime.date, d = << year, month, day >>
DateGt(d1, d2) ==
  \/ d1[1] > d2[1]
  \/ d1[1] = d2[1] /\ d1[2] > d2[2]
  \/ d1[1] = d2[1] /\ d1[2] = d2[2] /\ d1[3] > d2[3]

\* what the text area, the two date inputs, the multiselect and the bucket
\* field hold when the form is submitted
FormTexts ==
  {<<>>,
   << " ", "\n", " " >>,
   << "U", "S", "1" >>,
   << "U", "S", "1", "\n", " ", "F", "R", "2", " ", "\n" >>,
   << "Z", "Z", "0", "\n", "\n", "X", "X", "9" >>}
FormDates ==
  {<< << 2024, 3, 1 >>, << 2024, 3, 10 >> >>,
   << << 2024, 3, 10 >>, << 2024, 3, 1 >> >>,
   << << 2024, 3, 5 >>, << 2024, 3, 5 >> >>}
FormDocs == {<<>>, << "slides", "report" >>, << "transcript", "audio" >>}
FormBuckets == {<<>>, Bucket}
Forms ==
  {[isin_input |-> t, start_date |-> w[1], end_date |-> w[2], doc_types |-> d,
    s3_bucket |-> b] :
     t \in FormTexts, w \in FormDates, d \in FormDocs, b \in FormBuckets}

\* the form is filled and about to be submitted; nothing has run yet
InitMain ==
  /\ call_args \in Forms
  /\ call_result = Unbound
  /\ isin_list = <<>>
  /\ selected_docs = <<>>
  /\ start_date = <<>>
  /\ end_date = <<>>
  /\ bucket_name = <<>>
  /\ pc = "main"
  /\ outcome = "running"
  /\ session_open = FALSE
  /\ idx = 1
  /\ valid_isins = <<>>
  /\ companies_data = <<>>
  /\ total_files = 0
  /\ processed_files = 0
  /\ successful_uploads = 0
  /\ failed_uploads = 0
  /\ cand = 1
  /\ cur = Exhausted
  /\ success = FALSE
  /\ airtable_success = FALSE
  /\ s3_key = Unbound
  /\ faults = 0
  /\ cur_artifact = FALSE
  /\ cur_upload = "none"
  /\ cur_write = "none"
  /\ phase1_nonempty = 0
  /\ n_fetch = 0
  /\ n_upload = 0
  /\ n_write = 0
  /\ s3_puts = <<>>
  /\ s3_objects = <<>>
  /\ airtable_rows = <<>>
  /\ record = <<>>
  /\ progress = [kind |-> "none", processed |-> 0, total |-> 0,
                  successful |-> 0, failed |-> 0]

\* st.error(...); return
Reject ==
  /\ pc' = "done"
  /\ outcome' = "rejected"
  /\ UNCHANGED << isin_list, start_date, end_date, selected_docs, bucket_name,
                  session_open >>

\* lines 472-494: the checks of the submitted form and, when they pass, the
\* start of process_documents up to the opening of its session
Submit ==
  /\ pc = "main"
  /\ LET form == call_args
     IN  IF ~Truthy(form.isin_input) \/ ~Truthy(form.s3_bucket)
              \/ ~Truthy(form.doc_types)
           THEN Reject
         ELSE IF DateGt(form.start_date, form.end_date) THEN Reject
         ELSE IF ~Truthy(ParseIsins(form.isin_input)) THEN Reject
         ELSE /\ isin_list' = ParseIsins(form.isin_input)
              /\ start_date' = Strftime(form.start_date)
              /\ end_date' = Strftime(form.end_date)
              /\ selected_docs' = form.doc_types
              /\ bucket_name' = form.s3_bucket
              /\ session_open' = TRUE
              /\ pc' = "validate"
              /\ UNCHANGED outcome
  /\ UNCHANGED << call_args, call_result, idx, valid_isins, companies_data,
                  total_files, counters, cand, cur, success, airtable_success,
                  s3_key, faults, cur_artifact, cur_upload, cur_write,
                  phase1_nonempty, effects >>

NextMain ==
  \/ Submit
  \/ Next

SpecMain == InitMain /\ [][NextMain]_vars

(* ======================= the claims, checked =========================== *)
\* positions of the processing pass, and the states after the counting pass
ProcessingPcs == {"dispatch", "upload", "construct", "create", "account", "finish"}
Counted3 ==
  \/ pc \in ProcessingPcs
  \/ pc = "done" /\ outcome \in {"complete", "exception", "no_matching_documents"}

\* a calendar date read off a 'YYYY-MM-DD...' string, as << year, month, day >>
DigitValue(c) == CHOOSE n \in 0..9 : Digit(n) = c
DateOf(str) ==
  << 1000 * DigitValue(str[1]) + 100 * DigitValue(str[2])
       + 10 * DigitValue(str[3]) + DigitValue(str[4]),
     10 * DigitValue(str[6]) + DigitValue(str[7]),
     10 * DigitValue(str[9]) + DigitValue(str[10]) >>

\* d1 is the same day as d2 or an earlier one
DateLeq(d1, d2) ==
  \/ d1[1] < d2[1]
  \/ d1[1] = d2[1] /\ d1[2] < d2[2]
  \/ d1[1] = d2[1] /\ d1[2] = d2[2] /\ d1[3] <= d2[3]

\* the << company, event, doc_type >> positions that are candidates by the
\* calendar: category selected, URL present, day of the event in the window
TrueCandidates ==
  LET first == DateOf(start_date)
      last == DateOf(end_date)
      InDays(ev) ==
        /\ "eventDate" \in DOMAIN ev
        /\ LET day == DateOf(ev.eventDate)
           IN  DateLeq(first, day) /\ DateLeq(day, last)
      WithUrl(ev) ==
        {di \in 1..Len(selected_docs) :
           /\ UrlField(selected_docs[di]) \in DOMAIN ev
           /\ ev[UrlField(selected_docs[di])] # <<>>}
      OfEvent(ci, ei) ==
        LET ev == companies_data[ci].events[ei]
        IN  IF InDays(ev) THEN {<< ci, ei, di >> : di \in WithUrl(ev)} ELSE {}
      OfCompany(ci) ==
        IF "events" \in DOMAIN companies_data[ci]
          THEN UNION {OfEvent(ci, ei) : ei \in 1..Len(companies_data[ci].events)}
          ELSE {}
  IN  UNION {OfCompany(ci) : ci \in 1..Len(companies_data)}

\* C1: for every candidate whose handling has ended, a metadata write
\* (create_record) was attempted if and only if the upload of that candidate
\* returned True; no write is attempted before, or without, a successful upload.
C1_WriteIffUploadSucceeded ==
  /\ cur_write # "none" => cur_upload = "ok"
  /\ (pc = "account" \/ outcome = "exception")
       => (cur_upload = "ok" => cur_write # "none")

\* C2: an exception raised while a candidate is handled never aborts the run:
\* a run that started the processing pass ends complete, with every candidate
\* handled and counted.
C2_CandidateExceptionIsolated ==
  (pc = "done" /\ total_files > 0)
    => /\ outcome = "complete"
       /\ processed_files = total_files

\* C3: the candidates counted by the counting pass are the candidates the
\* processing pass handles: total_files is the number of loop bodies the
\* processing pass enters, processed_files counts the bodies completed, grows
\* by one per handled candidate and never otherwise, and equals total_files
\* when the processing pass ends, however it ends.
C3_State ==
  /\ pc \in ProcessingPcs
       => /\ processed_files = cand - 1
          /\ processed_files <= total_files
  /\ pc \in ProcessingPcs \ {"finish"} => processed_files < total_files
  /\ (pc = "finish" \/ pc = "done") => processed_files = total_files
C3_Step ==
  \/ processed_files' = processed_files
  \/ pc = "account" /\ processed_files' = processed_files + 1
\* C3: C3_State holds in every state and C3_Step on every step
C3_CountedAreProcessed == [] C3_State /\ [][C3_Step]_vars

\* C4: successful_uploads + failed_uploads = processed_files in every state,
\* in every progress notification and at run end, and none of the three
\* counters ever decreases.
C4_State ==
  /\ successful_uploads + failed_uploads = processed_files
  /\ progress.successful + progress.failed = progress.processed
  /\ progress.kind # "none"
       => /\ progress.processed = processed_files
          /\ progress.successful = successful_uploads
          /\ progress.failed = failed_uploads
C4_Step ==
  /\ processed_files' >= processed_files
  /\ successful_uploads' >= successful_uploads
  /\ failed_uploads' >= failed_uploads
\* C4: C4_State holds in every state and C4_Step on every step
C4_CountersAddUp == [] C4_State /\ [][C4_Step]_vars

\* a progress notification after an upload that failed and an earlier
\* candidate that failed
C4_Witness ==
  /\ progress.kind = "item"
  /\ progress.processed >= 2
  /\ progress.failed >= 2
  /\ cur_upload = "failed"

\* C5 as claimed: a transcript candidate for which no artifact is produced
\* causes no upload and no metadata write and leaves failed_uploads as it is.
C5_NoArtifactNotCounted ==
  [][(pc = "account" /\ doc_type = "transcript" /\ ~cur_artifact)
       => /\ cur_upload = "none"
          /\ cur_write = "none"
          /\ failed_uploads' = failed_uploads]_vars

\* C5, amended: a transcript candidate for which no artifact is produced
\* causes no upload and no metadata write and is counted as one failed item:
\* failed_uploads and processed_files grow by one, successful_uploads stays.
C5_NoArtifactCountsFailed ==
  [][(pc = "account" /\ doc_type = "transcript" /\ ~cur_artifact)
       => /\ cur_upload = "none"
          /\ cur_write = "none"
          /\ n_upload' = n_upload
          /\ n_write' = n_write
          /\ failed_uploads' = failed_uploads + 1
          /\ processed_files' = processed_files + 1
          /\ successful_uploads' = successful_uploads]_vars

\* a run of two transcript candidates, one with an empty text and one
\* without a transcript-location object: both counted as failed, no upload
C5_Witness ==
  /\ pc = "finish"
  /\ selected_docs = << "transcript" >>
  /\ ~cur_artifact
  /\ faults = 0
  /\ n_upload = 0
  /\ n_write = 0
  /\ failed_uploads = 2

\* C6: handling a candidate adds one to exactly one of successful_uploads and
\* failed_uploads: to successful_uploads if and only if the upload and the
\* metadata write of that candidate both succeeded, to failed_uploads in
\* every other case; a candidate whose upload succeeded goes on to the
\* recorder and then to the counters.
C6_ExactlyOneCounter ==
  [][/\ pc = "account"
          => IF cur_upload = "ok" /\ cur_write = "ok"
               THEN /\ successful_uploads' = successful_uploads + 1
                    /\ failed_uploads' = failed_uploads
               ELSE /\ failed_uploads' = failed_uploads + 1
                    /\ successful_uploads' = successful_uploads
     /\ pc = "construct" => (pc' = "create" \/ pc' = "account")
     /\ pc = "create" => pc' = "account"]_vars

\* C7: when the counting pass finds zero candidates (no position of the
\* fetched companies is a candidate), the run ends early with "no matching
\* documents" and has fetched no document, uploaded nothing and written no
\* metadata.
C7_ZeroCandidatesEndEarly ==
  (Counted3 /\ total_files = 0)
    => /\ pc = "done"
       /\ outcome = "no_matching_documents"
       /\ TrueCandidates = {}
       /\ n_fetch = 0
       /\ n_upload = 0
       /\ n_write = 0

\* a company was fetched and has events, none of them a candidate
C7_Witness ==
  /\ outcome = "no_matching_documents"
  /\ Len(companies_data) >= 1
  /\ Len(companies_data[1].events) >= 1
  /\ n_fetch = 0

\* C8: when every identifier got an empty provider response in Phase 1, the
\* run ends early, reported as "no valid ISINs" and not as an exception, and
\* has fetched no document, uploaded nothing and written no metadata.
C8_NoValidIdentifierEndsEarly ==
  (pc # "validate" /\ phase1_nonempty = 0)
    => /\ pc = "done"
       /\ outcome = "no_valid_isins"
       /\ companies_data = <<>>
       /\ n_fetch = 0
       /\ n_upload = 0
       /\ n_write = 0

\* two identifiers, one unknown to the provider and one whose query failed
C8_Witness ==
  /\ outcome = "no_valid_isins"
  /\ Len(isin_list) = 2
  /\ phase1_nonempty = 0
  /\ faults = 1

\* C9: in both passes a position is a candidate if and only if its category
\* is selected, the event has a URL for it and the day of the event lies in
\* [start_date, end_date], both ends included: total_files counts exactly
\* those positions, the processing pass handles only such positions, each
\* once, and as many of them as there are.
C9_State ==
  /\ (pc = "dispatch" /\ cand = 1) \/ outcome = "no_matching_documents"
       => total_files = Cardinality(TrueCandidates)
  /\ pc = "dispatch" => cur \in TrueCandidates
  /\ pc = "finish" => processed_files = Cardinality(TrueCandidates)
\* the processing pass goes through the positions in increasing order, so it
\* handles no position twice
C9_Step ==
  (pc = "account" /\ pc' = "dispatch")
    => \/ cur'[1] > cur[1]
       \/ cur'[1] = cur[1] /\ cur'[2] > cur[2]
       \/ cur'[1] = cur[1] /\ cur'[2] = cur[2] /\ cur'[3] > cur[3]
\* C9: C9_State holds in every state and C9_Step on every step
C9_CandidateIffInWindow == [] C9_State /\ [][C9_Step]_vars

\* an event dated end_date is being handled while one dated the day after
\* end_date and one dated the day before start_date were fetched with it
C9_Witness ==
  /\ pc = "dispatch"
  /\ event_date = end_date
  /\ Len(companies_data) = 2
  /\ \E c \in 1..2 :
       /\ Len(companies_data[c].events) = 4
       /\ << c, 1, 1 >> \notin TrueCandidates
       /\ << c, 3, 1 >> \notin TrueCandidates

\* the key the claim describes
Underscored(str) == [i \in 1..Len(str) |->
                      IF str[i] \in {" ", "/"} THEN "_" ELSE str[i]]
DatePrefix(date) ==
  IF \E i \in 1..Len(date) : date[i] = "T"
    THEN SubSeq(date, 1, SetMin({i \in 1..Len(date) : date[i] = "T"}) - 1)
    ELSE date
ClaimedKey(name, date, category, filename) ==
  Lower(Underscored(name)) \o << "/" >> \o DatePrefix(date) \o << "/" >>
    \o DocChars(category) \o << "/" >> \o Lower(Underscored(filename))

\* C10: format_s3_key returns lower(company')/date_prefix/doc_type/
\* lower(filename'), with every space and every '/' of the company name and of
\* the filename replaced by '_' and date_prefix the part before the first 'T'.
C10_KeyAsClaimed ==
  call_result # Unbound
    => call_result =
         ClaimedKey(call_args[1], call_args[2], call_args[3], call_args[4])

\* C11: neither the upload (upload_file) nor the recorder use made for a
\* candidate (AirtableHandler() followed by create_record) lets an exception
\* reach process_documents: no step of the three aborts the run, each failure
\* comes back as a False result.
C11_NoExceptionPastBoundary ==
  [][(pc = "upload" \/ pc = "construct" \/ pc = "create")
       => /\ pc' \in ProcessingPcs
          /\ outcome' = outcome]_vars

\* C12: a run that started the processing pass and has ended has reported the
\* final summary of the processed, successful and failed counts.
C12_EndsWithSummary ==
  (pc = "done" /\ outcome \notin {"no_valid_isins", "no_matching_documents"})
    => /\ progress.kind = "final"
       /\ progress.processed = processed_files
       /\ progress.successful = successful_uploads
       /\ progress.failed = failed_uploads

\* the submitted form has no identifier: no line of the text holds anything
\* but blanks
NoIdentifier(text) == \A i \in 1..Len(text) : text[i] \in {" ", "\n"}

\* the submitted form is one the run invocation must reject
MustReject(form) ==
  \/ NoIdentifier(form.isin_input)
  \/ form.doc_types = <<>>
  \/ form.s3_bucket = <<>>
  \/ ~DateLeq(form.start_date, form.end_date)

\* C13: a rejected invocation has started nothing: no session, no provider
\* query, no fetch, no upload, no metadata write.
C13_State ==
  outcome = "rejected"
    => /\ pc = "done"
       /\ MustReject(call_args)
       /\ ~session_open
       /\ idx = 1
       /\ faults = 0
       /\ valid_isins = <<>>
       /\ companies_data = <<>>
       /\ n_fetch = 0
       /\ n_upload = 0
       /\ n_write = 0
\* a form with an empty identifier list, an empty category list, an empty
\* bucket name or start_date > end_date is rejected when it is submitted, and
\* process_documents is not started
C13_Step ==
  (pc = "main" /\ MustReject(call_args))
    => /\ pc' = "done"
       /\ outcome' = "rejected"
\* C13: C13_State holds in every state and C13_Step on every step
C13_RejectedBeforeAnyEffect == [] C13_State /\ [][C13_Step]_vars

\* a form with identifiers, categories and a bucket was rejected for its dates
C13_Witness ==
  /\ outcome = "rejected"
  /\ ~NoIdentifier(call_args.isin_input)
  /\ call_args.doc_types # <<>>
  /\ call_args.s3_bucket # <<>>
  /\ call_args.start_date = << 2024, 3, 10 >>
  /\ call_args.end_date = << 2024, 3, 1 >>

\* position p comes before position q in the order of the three nested loops
PosBefore(p, q) ==
  \/ p[1] < q[1]
  \/ p[1] = q[1] /\ p[2] < q[2]
  \/ p[1] = q[1] /\ p[2] = q[2] /\ p[3] < q[3]

\* the company records are those of the valid identifiers, in their order
InOrderOf(cdata, isins) ==
  \E f \in [1..Len(cdata) -> 1..Len(isins)] :
    /\ \A k \in 1..Len(cdata) : cdata[k] = Directory[isins[f[k]]]
    /\ \A j, k \in 1..Len(cdata) : j < k => f[j] < f[k]

\* C14: the companies of the processing pass are in the order of the valid
\* identifiers, and the candidate being handled is of the category at its
\* position in the caller's list: the key prepared for it names that category.
C14_State ==
  /\ pc = "dispatch" => InOrderOf(companies_data, valid_isins)
  /\ pc = "upload"
       => Split(s3_key, << "/" >>)[3] = DocChars(selected_docs[cur[3]])
\* the first candidate handled is the first candidate position, each next one
\* is the next candidate position after the one just handled, and the pass
\* ends when no candidate position is left
C14_Step ==
  LET candidates == TrueCandidates
  IN  /\ (pc = "refetch" /\ pc' = "dispatch")
           => \A t \in candidates : ~PosBefore(t, cur')
      /\ (pc = "account" /\ pc' = "dispatch")
           => /\ PosBefore(cur, cur')
              /\ \A t \in candidates : ~(PosBefore(cur, t) /\ PosBefore(t, cur'))
      /\ (pc = "account" /\ pc' = "finish")
           => \A t \in candidates : ~PosBefore(cur, t)
\* C14: C14_State holds in every state and C14_Step on every step
C14_HandledInListOrder == [] C14_State /\ [][C14_Step]_vars

\* the caller selected audio before slides: the audio of an event has been
\* handled and its slides, second in the selection, are being uploaded
C14_Witness ==
  /\ pc = "upload"
  /\ selected_docs = << "audio", "slides" >>
  /\ cur[3] = 2
  /\ doc_type = "slides"
  /\ processed_files >= 1
  /\ Truthy(Get(event, "audioUrl", <<>>))

\* C15: a step of Phase 1 accepts the identifier it queries if and only if
\* the provider answered with status 200 (no transport error, identifier
\* known) and the answer holds an event collection, empty or not; an answer
\* without one, a non-200 status or a transport error drops the identifier,
\* the run is not aborted and goes on to the next identifier; the identifiers
\* accepted go on to Phase 2 once every identifier has been queried.
C15_Step ==
  /\ (pc = "validate" /\ idx <= Len(isin_list))
       => LET isin == isin_list[idx]
              answered == faults' = faults /\ isin \in DOMAIN Directory
              accepted == answered /\ "events" \in DOMAIN Directory[isin]
          IN  /\ valid_isins' = IF accepted THEN Append(valid_isins, isin)
                                ELSE valid_isins
              /\ idx' = idx + 1
              /\ pc' = "validate"
              /\ outcome' = "running"
  /\ (pc = "validate" /\ pc' # "validate")
       => /\ idx = Len(isin_list) + 1
          /\ valid_isins # <<>> => (pc' = "refetch" /\ outcome' = "running")
C15_ValidIffEventCollection == [][C15_Step]_vars

\* an identifier whose answer has no event collection was dropped and the
\* next one, whose event collection is empty, was accepted and fetched
C15_Witness ==
  /\ pc = "refetch"
  /\ isin_list = << "XX9", "DE5" >>
  /\ valid_isins = << "DE5" >>
  /\ Len(companies_data) = 1
  /\ companies_data[1].events = <<>>

\* C16: a candidate gets at most one upload attempt and at most one
\* metadata-write attempt (an attempt is made only for a candidate that has
\* had none, and the marks of a candidate are cleared only when the next
\* candidate begins), and once the upload of a candidate has succeeded,
\* whatever becomes of its metadata write, nothing more is issued for the
\* stored object and the run goes on: to the counters, where a failed write
\* is counted as failed, and from there to the next candidate, or to the end
\* of the pass when there is none.
C16_Step ==
  /\ n_upload' # n_upload
       => /\ n_upload' = n_upload + 1
          /\ cur_upload = "none"
          /\ cur_upload' # "none"
  /\ n_write' # n_write
       => /\ n_write' = n_write + 1
          /\ cur_write = "none"
          /\ cur_write' # "none"
  /\ (cur_upload # "none" /\ cur_upload' # cur_upload) => pc = "dispatch"
  /\ (cur_write # "none" /\ cur_write' # cur_write) => pc = "dispatch"
  /\ pc' = "dispatch" => (pc = "refetch" \/ cand' = cand + 1)
  /\ (\E i \in 1..Len(s3_objects) : s3_objects'[i] # s3_objects[i]) => FALSE
  /\ Len(s3_objects') >= Len(s3_objects)
  /\ (cur_upload = "ok"
        /\ (pc = "construct" \/ pc = "create" \/ pc = "account"))
       => /\ s3_objects' = s3_objects
          /\ n_upload' = n_upload
          /\ outcome' = "running"
  /\ (pc = "account" /\ cur_upload = "ok" /\ cur_write = "failed")
       => /\ airtable_rows' = airtable_rows
          /\ n_write' = n_write
          /\ failed_uploads' = failed_uploads + 1
          /\ cand' = cand + 1
          /\ pc' = "dispatch" \/ pc' = "finish"
C16_NoRetryAfterWriteFailure == [][C16_Step]_vars

\* C17: no session is open before the run starts, the session is open at
\* every position of the run and closed once the run has ended, however it
\* ended.
C17_State ==
  /\ pc = "main" => ~session_open
  /\ (pc \in {"validate", "refetch"} \/ pc \in ProcessingPcs) => session_open
  /\ pc = "done" => ~session_open
  /\ outcome \in {"complete", "no_valid_isins", "no_matching_documents",
                  "exception"} => ~session_open
\* a session is opened only by the step that starts the run, which opens one;
\* it is closed only by a step that ends the run; every provider query and
\* every document fetch is made with the session open
C17_Step ==
  /\ (~session_open /\ session_open') => (pc = "main" /\ pc' = "validate")
  /\ (pc = "main" /\ pc' = "validate") => session_open'
  /\ (session_open /\ ~session_open') => pc' = "done"
  /\ ((pc = "validate" \/ pc = "refetch") /\ idx' = idx + 1)
       => (session_open /\ session_open')
  /\ n_fetch' # n_fetch => session_open
\* C17: C17_State holds in every state and C17_Step on every step
C17_OneSessionAlwaysClosed == [] C17_State /\ [][C17_Step]_vars

\* a run started from the form was aborted by an exception after a document
\* fetch, and its session is closed
C17_Witness ==
  /\ pc = "done"
  /\ outcome = "exception"
  /\ n_fetch >= 1
  /\ call_args \in Forms
  /\ ~session_open

\* C18: within one run no storage key is written more than once (put_object
\* is called at most once with any one key, and no key is stored twice) and
\* no two metadata rows are created with the same storage URL.
C18_NoKeyOrUrlTwice ==
  /\ \A i, j \in 1..Len(s3_puts) : i # j => s3_puts[i] # s3_puts[j]
  /\ \A i, j \in 1..Len(s3_objects) :
       i # j => s3_objects[i] # s3_objects[j]
  /\ \A i, j \in 1..Len(airtable_rows) :
       i # j => airtable_rows[i].aws_url # airtable_rows[j].aws_url

\* the text holds a period followed by a newline
HasPeriodNewline(text) ==
  \E i \in 1..(Len(text) - 1) : text[i] = "." /\ text[i + 1] = "\n"

\* C19 as claimed: for any transcript text, splitting the formatted text on
\* ".\n" gives the segments that splitting the text on ". " gave.
C19_ResplitGivesSegments ==
  (pc = "call_format" /\ call_result # Unbound)
    => Split(call_result, << ".", "\n" >>) = Split(call_args[1], << ".", " " >>)

\* C19, amended: for any transcript text that holds no period followed by a
\* newline, splitting the formatted text on ".\n" gives the segments that
\* splitting the text on ". " gave.
C19_ResplitGivesSegmentsWithoutPeriodNewline ==
  (pc = "call_format" /\ call_result # Unbound
     /\ ~HasPeriodNewline(call_args[1]))
    => Split(call_result, << ".", "\n" >>) = Split(call_args[1], << ".", " " >>)

\* "A. B. C" was formatted to "A.\nB.\nC"
C19_Witness ==
  /\ pc = "call_format"
  /\ call_args = << << "A", ".", " ", "B", ".", " ", "C" >> >>
  /\ call_result = << "A", ".", "\n", "B", ".", "\n", "C" >>
  /\ Split(call_result, << ".", "\n" >>) = << << "A" >>, << "B" >>, << "C" >> >>

\* C21: once Phase 2 is over, companies_data holds one company record per
\* identifier accepted in Phase 1, in the order of valid_isins: the k-th
\* record is the record of the k-th valid identifier.
C21_OneRecordPerValidIdentifier ==
  (pc \in ProcessingPcs \/ (pc = "done" /\ outcome # "no_valid_isins"
                             /\ outcome # "rejected"))
    => /\ Len(companies_data) = Len(valid_isins)
       /\ \A k \in 1..Len(companies_data) :
            /\ valid_isins[k] \in DOMAIN Directory
            /\ companies_data[k] = Directory[valid_isins[k]]

====
